---- MODULE Spec2Model ----
(***************************************************************************)
(* FSStorage (src/storage.py): a file store over the local file system     *)
(* with an in-memory cache of the streams whose disk write is in flight.   *)
(*                                                                         *)
(* The store runs on one asyncio event loop: the code between two awaits   *)
(* that really suspend is one atomic step.  The awaits that suspend are    *)
(* the ones that hand a file-system call to the thread pool (aioos.mkdir,  *)
(* aiofiles.open, the destination's write and close, aioos.remove).  Each  *)
(* action below is one such block: it starts with the outcome of the call  *)
(* the coroutine was waiting for and runs to the next suspension.          *)
(***************************************************************************)
EXTENDS Integers, Sequences, FiniteSets, TLC

\* ---------------------------------------------------------------- bounds
\* put calls, delete calls
NumPuts == 2
NumDeletes == 2
\* operations (put calls, delete calls, a caller of get) in one run
MaxOps == 3
\* length of the stream handed to put
DataLen == 2
\* time() returns a value in 0..MaxTime
MaxTime == 1
\* low-level I/O errors the file system may raise in one run
MaxFaults == 1

PutIds == 1..NumPuts
DelIds == 1..NumDeletes

\* ------------------------------------------------------- program constants
\* FSStorage.__init__(path = '.cache')
BaseDataPath == ".cache"

\* The (path, name) pairs the callers use; a path is the list of its
\* "/"-separated segments.  The first two make the same key "a_b_c".
OldFile == <<(<<"a_b">>), "c">>
Files == { OldFile, <<(<<"a">>), "b_c">>, <<(<<"a">>), "c">> }

\* Content of a file that is on disk before the store starts.
OldData == <<9>>

\* The bytes put call p hands over: distinct from every other call's.
DataOf(p) == [i \in 1..DataLen |-> 10 * p + i]

\* ------------------------------------------------------------------ state
VARIABLES
    cache,        \* self._cache: key -> stream (a stream is named by its put call)
    updated_at,   \* self._updated_at: key -> time() of the insertion
    opened,       \* self._cache_opened_times: key -> 0
    now,          \* the value time() returns
    dirs,         \* the directories that exist
    disk,         \* file path -> [ino, content] of the file linked there
    stream,       \* per put call: the input stream [data, pos, closed]
    put,          \* per put call: the coroutine's position and locals
    del,          \* per delete call: the coroutine's position and locals
    ret,          \* what the last get call returned
    faults        \* I/O errors raised so far

vars == <<cache, updated_at, opened, now, dirs, disk, stream, put, del, ret, faults>>

\* ---------------------------------------------------------------- helpers
RECURSIVE JoinPath(_)
\* "/".join(segments): the path string the caller passes
JoinPath(segs) ==
    IF Len(segs) = 0 THEN ""
    ELSE IF Len(segs) = 1 THEN segs[1]
    ELSE segs[1] \o "/" \o JoinPath(Tail(segs))

\* key = path + "_" + name
KeyOf(path, name) == JoinPath(path) \o "_" \o name

\* [self._base_data_path] + path.split("/")
Segments(path) == <<BaseDataPath>> \o path

\* current_path after i rounds of current_path = current_path / sub_path
DirAt(path, i) == SubSeq(Segments(path), 1, i)

\* _prepare_path(path) / name
PutFilePath(path, name) == Append(Segments(path), name)

\* PurePath(self._base_data_path) / path / name
GetFilePath(path, name) == (<<BaseDataPath>> \o path) \o <<name>>

\* PurePath(self._base_data_path + "/" + path + "/" + name)
DeleteFilePath(path, name) == <<BaseDataPath>> \o (path \o <<name>>)

Keys == { KeyOf(f[1], f[2]) : f \in Files }
FilePaths == { GetFilePath(f[1], f[2]) : f \in Files }

\* A dict is a function on Keys; a key the dict does not hold maps to None.
None == 0 - 1
Has(d, k) == d[k] # None
Without(d, k) == [d EXCEPT ![k] = None]
With(d, k, v) == [d EXCEPT ![k] = v]
EmptyDict == [k \in Keys |-> None]

\* The file system: a path with no file maps to NoFile.  ino names the file
\* itself, so that a handle opened before an unlink or a re-creation is told
\* from the file now linked at the path.
NoFile == [ino |-> None, content |-> <<>>]
Exists(dk, fp) == dk[fp] # NoFile

\* What a read() of the stream returns: the bytes after its position.
Unread(s) == SubSeq(s.data, s.pos + 1, Len(s.data))

IdlePut == [pc |-> "idle", path |-> <<>>, name |-> "", force |-> FALSE,
            ts |-> 0, i |-> 0, buf |-> <<>>, ino |-> None, off |-> 0,
            ioerr |-> FALSE, fresh |-> FALSE, saw |-> FALSE, alone |-> TRUE]

IdleDel == [pc |-> "idle", path |-> <<>>, name |-> "", result |-> FALSE,
            had |-> FALSE, np |-> 0]

NoStream == [data |-> <<>>, pos |-> 0, closed |-> FALSE]

NoRet == [kind |-> "none", path |-> <<>>, name |-> "", stream |-> None]

\* The disks the store may find when it starts: nothing at all, or the
\* directories and a file left by an earlier run.
DirOf(f) == <<BaseDataPath>> \o f[1]
InitDisks ==
    { [ds |-> {}, fs |-> {}],
      [ds |-> {<<BaseDataPath>>} \cup { DirOf(f) : f \in Files }, fs |-> {OldFile}] }

\* put calls made so far
PutsStarted == Cardinality({ p \in PutIds : put[p].pc # "idle" })

\* operations so far: the put and delete calls made, and the caller of get
Started == PutsStarted
           + Cardinality({ d \in DelIds : del[d].pc # "idle" })
           + (IF ret.kind # "none" THEN 1 ELSE 0)

\* time(): the clock may not have moved since the last call (the values are
\* only ever compared for equality; the first reading is the origin)
Times == IF PutsStarted = 0 THEN {now} ELSE { t \in {now, now + 1} : t <= MaxTime }

Init ==
    /\ cache = EmptyDict
    /\ updated_at = EmptyDict
    /\ opened = EmptyDict
    /\ now = 0
    /\ \E d \in InitDisks :
         /\ dirs = d.ds
         /\ disk = [fp \in FilePaths |->
                      IF fp \in { GetFilePath(f[1], f[2]) : f \in d.fs }
                      THEN [ino |-> 0, content |-> OldData] ELSE NoFile]
    /\ stream = [p \in PutIds |-> NoStream]
    /\ put = [p \in PutIds |-> IdlePut]
    /\ del = [d \in DelIds |-> IdleDel]
    /\ ret = NoRet
    /\ faults = 0

\* ------------------------------------------------------------------- put
\* (mutant: no directory is looked at, none is created)
NoneMissing(path, i, ds) == 0

RECURSIVE FirstMissing(_, _, _)
\* _prepare_path from round i on: the first round whose directory does not
\* exist (os.path.exists is false, so the coroutine awaits mkdir), 0 if the
\* loop runs to its end without suspending.
FirstMissing(path, i, ds) ==
    IF i > Len(Segments(path)) THEN 0
    ELSE IF DirAt(path, i) \notin ds THEN i
    ELSE FirstMissing(path, i + 1, ds)

\* (mutant: the force flag is not looked at)
RejectsAlways(force, dk, fp) == Exists(dk, fp)

\* if not force and os.path.exists(str(file_path)): raise
Rejects(force, dk, fp) == ~force /\ Exists(dk, fp)

\* put from round i of _prepare_path to its next suspension: the await of a
\* mkdir, the "already existing" error, or the await of aiofiles.open.
AfterPrepare(r, i, ds, dk) ==
    LET j == FirstMissing(r.path, i, ds)
        fp == PutFilePath(r.path, r.name)
    IN  IF j # 0 THEN [r EXCEPT !.pc = "mkdir", !.i = j]
        ELSE IF Rejects(r.force, dk, fp)
             THEN [r EXCEPT !.pc = "raised", !.i = 0, !.saw = TRUE]
             ELSE [r EXCEPT !.pc = "open", !.i = 0, !.saw = Exists(dk, fp)]

\* lines 46-50, then up to the first suspension
PutCall(p) ==
    /\ put[p].pc = "idle"
    /\ \A q \in PutIds : q < p => put[q].pc # "idle"
    /\ Started < MaxOps
    /\ \E f \in Files, force \in BOOLEAN, t \in Times :
         LET key == KeyOf(f[1], f[2])
             r == [IdlePut EXCEPT !.path = f[1], !.name = f[2], !.force = force,
                                  !.ts = t,
                                  !.fresh = ~Exists(disk, PutFilePath(f[1], f[2]))]
         IN  /\ cache' = With(cache, key, p)
             /\ updated_at' = With(updated_at, key, t)
             /\ now' = t
             /\ opened' = With(opened, key, 0)
             /\ stream' = [stream EXCEPT ![p] = [data |-> DataOf(p), pos |-> 0,
                                                 closed |-> FALSE]]
             /\ put' = [put EXCEPT ![p] = AfterPrepare(r, 1, dirs, disk)]
    /\ UNCHANGED <<dirs, disk, del, ret, faults>>

\* await aioos.mkdir(...) returns (a FileExistsError is passed over), and the
\* loop goes on
PutMkdir(p) ==
    /\ put[p].pc = "mkdir"
    /\ dirs' = dirs \cup {DirAt(put[p].path, put[p].i)}
    /\ put' = [put EXCEPT ![p] = AfterPrepare(put[p], put[p].i + 1, dirs', disk)]
    /\ UNCHANGED <<cache, updated_at, opened, now, disk, stream, del, ret, faults>>

\* ---- copy(file, storage_file), from src.utils: "reads source_stream to
\* completion and writes every byte, in order, to destination_stream;
\* suspension-capable".  It reads the source a chunk at a time and awaits the
\* destination's write of each chunk.
ChunkSize == 1

\* source.read(ChunkSize): the bytes read
Chunk(s) ==
    SubSeq(s.data, s.pos + 1,
           IF s.pos + ChunkSize < Len(s.data) THEN s.pos + ChunkSize ELSE Len(s.data))

\* the source after that read
Advance(s) == [s EXCEPT !.pos = s.pos + Len(Chunk(s))]

\* One round of copy up to its suspension: with a chunk in hand the coroutine
\* awaits the write; at end of stream copy returns and the async with
\* block awaits the destination's close.
CopyRound(r, s) ==
    IF Chunk(s) = <<>> THEN [r EXCEPT !.pc = "close", !.buf = <<>>]
    ELSE [r EXCEPT !.pc = "write", !.buf = Chunk(s)]

\* (mutant: mode 'r+b', a missing file is not created)
OpenExisting(dk, fp, p) ==
    [dk EXCEPT ![fp] = IF Exists(dk, fp) THEN [ino |-> dk[fp].ino, content |-> <<>>]
                       ELSE NoFile]

\* open(file_path, 'wb'): the file is created, or the file linked at the path
\* is truncated
OpenWb(dk, fp, p) ==
    [dk EXCEPT ![fp] = IF Exists(dk, fp) THEN [ino |-> dk[fp].ino, content |-> <<>>]
                       ELSE [ino |-> p, content |-> <<>>]]

\* content after a write of buf at offset off (a gap is filled with zeros)
WriteAt(content, off, buf) ==
    LET n == IF Len(content) > off + Len(buf) THEN Len(content) ELSE off + Len(buf)
    IN  [k \in 1..n |-> IF k > off /\ k <= off + Len(buf) THEN buf[k - off]
                        ELSE IF k <= Len(content) THEN content[k] ELSE 0]

\* storage_file.write(buf) through a handle on file ino at path fp; a file
\* that was unlinked meanwhile is no longer seen at the path
WriteFile(dk, fp, ino, off, buf) ==
    IF Exists(dk, fp) /\ dk[fp].ino = ino
    THEN [dk EXCEPT ![fp].content = WriteAt(dk[fp].content, off, buf)]
    ELSE dk

\* (mutant: the timestamps are not compared)
RetiresAny(u, key, ts) == Has(u, key)

\* lines 63-65: the retirement step of a put that recorded ts for key
Retires(u, key, ts) == Has(u, key) /\ ts = u[key]

\* (mutant: del self._cache[key] is left out)
KeepCache(c, u, key, ts) == c

\* (mutant: del self._updated_at[key] is left out)
KeepUpdatedAt(u, key, ts) == u

RetireCache(c, u, key, ts) == IF Retires(u, key, ts) THEN Without(c, key) ELSE c
RetireUpdatedAt(u, key, ts) == IF Retires(u, key, ts) THEN Without(u, key) ELSE u

\* file.close()
Closed(s) == [s EXCEPT !.closed = TRUE]

\* lines 63-67, the end of put: retirement, then the input stream is closed
Finish(p, r) ==
    /\ cache' = RetireCache(cache, updated_at, KeyOf(r.path, r.name), r.ts)
    /\ updated_at' = RetireUpdatedAt(updated_at, KeyOf(r.path, r.name), r.ts)
    /\ stream' = [stream EXCEPT ![p] = Closed(stream[p])]

\* The other put calls that hold the file at fp open lose "alone".
Disturb(pt, p, fp) ==
    [q \in PutIds |->
       IF q # p /\ pt[q].pc \in {"write", "close"} /\ PutFilePath(pt[q].path, pt[q].name) = fp
       THEN [pt[q] EXCEPT !.alone = FALSE] ELSE pt[q]]

\* (mutant: the IOError leaves put)
OnIOErrorRaise(r, pc) == [r EXCEPT !.pc = "raised", !.buf = <<>>, !.ioerr = TRUE]

\* lines 60-61, except IOError: pass: put goes on at pc
OnIOError(r, pc) == [r EXCEPT !.pc = pc, !.buf = <<>>, !.ioerr = TRUE]

\* await aiofiles.open(file_path, 'wb') returns: with the open file copy
\* reads its first chunk; on an IOError put passes over the write (lines 60-67)
PutOpen(p) ==
    LET r == put[p]
        fp == PutFilePath(r.path, r.name)
    IN  /\ r.pc = "open"
        /\ \/ /\ disk' = OpenWb(disk, fp, p)
              /\ put' = [Disturb(put, p, fp) EXCEPT
                           ![p] = CopyRound([r EXCEPT !.ino = disk'[fp].ino], stream[p])]
              /\ stream' = [stream EXCEPT ![p] = Advance(stream[p])]
              /\ UNCHANGED <<cache, updated_at, faults>>
           \/ /\ faults < MaxFaults
              /\ faults' = faults + 1
              /\ put' = [put EXCEPT ![p] = OnIOError(r, "done")]
              /\ Finish(p, r)
              /\ UNCHANGED disk
        /\ UNCHANGED <<opened, now, dirs, del, ret>>

\* await storage_file.write(chunk) returns: copy reads the next chunk; an
\* IOError leaves the async with block, which awaits the close
PutWrite(p) ==
    LET r == put[p]
        fp == PutFilePath(r.path, r.name)
    IN  /\ r.pc = "write"
        /\ \/ /\ disk' = WriteFile(disk, fp, r.ino, r.off, r.buf)
              /\ put' = [Disturb(put, p, fp) EXCEPT
                           ![p] = CopyRound([r EXCEPT !.off = r.off + Len(r.buf)], stream[p])]
              /\ stream' = [stream EXCEPT ![p] = Advance(stream[p])]
              /\ UNCHANGED faults
           \/ /\ faults < MaxFaults
              /\ faults' = faults + 1
              /\ put' = [put EXCEPT ![p] = OnIOError(r, "close")]
              /\ UNCHANGED <<disk, stream>>
        /\ UNCHANGED <<cache, updated_at, opened, now, dirs, del, ret>>

\* the destination's close returns (the end of the async with block): lines 63-67
PutClose(p) ==
    LET r == put[p]
    IN  /\ r.pc = "close"
        /\ put' = [put EXCEPT ![p] = [r EXCEPT !.pc = "done", !.off = 0, !.ino = None]]
        /\ Finish(p, r)
        /\ UNCHANGED <<opened, now, dirs, disk, del, ret, faults>>

\* ---------------------------------------------------------------- delete
\* lines 109-115, up to the await of aioos.remove
DelCall(d) ==
    /\ del[d].pc = "idle"
    /\ \A e \in DelIds : e < d => del[e].pc = "done"
    /\ Started < MaxOps
    /\ \E f \in Files :
         LET key == KeyOf(f[1], f[2])
         IN  /\ del' = [del EXCEPT ![d] =
                          [IdleDel EXCEPT !.pc = "remove", !.path = f[1], !.name = f[2],
                                          !.had = Has(cache, key)
                                                  \/ Exists(disk, DeleteFilePath(f[1], f[2])),
                                          !.np = PutsStarted]]
             /\ updated_at' = IF Has(updated_at, key) THEN Without(updated_at, key)
                              ELSE updated_at
             /\ cache' = IF Has(cache, key) THEN Without(cache, key) ELSE cache
    /\ UNCHANGED <<opened, now, dirs, disk, stream, put, ret, faults>>

\* await aioos.remove(...) returns: True, or False on FileNotFoundError
DelRemove(d) ==
    LET fp == DeleteFilePath(del[d].path, del[d].name)
    IN  /\ del[d].pc = "remove"
        /\ del' = [del EXCEPT ![d] = [@ EXCEPT !.pc = "done", !.result = Exists(disk, fp)]]
        /\ disk' = [disk EXCEPT ![fp] = NoFile]
        /\ put' = IF Exists(disk, fp) THEN Disturb(put, 0, fp) ELSE put
        /\ UNCHANGED <<cache, updated_at, opened, now, dirs, stream, ret, faults>>

\* ------------------------------------------------------------------- get
\* (mutant: a key that is not cached is not looked up on disk)
GetKindCacheOnly(c, dk, path, name) ==
    IF Has(c, KeyOf(path, name)) THEN "cache" ELSE "notfound"

\* (mutant: the disk is looked at first)
GetKindDiskFirst(c, dk, path, name) ==
    IF Exists(dk, GetFilePath(path, name)) THEN "disk"
    ELSE IF Has(c, KeyOf(path, name)) THEN "cache"
    ELSE "notfound"

\* get(path, name, sync): the cached stream if the key is cached, else the
\* file on disk, else the "File not existing." error.  Both modes hand out
\* the same stream object: sync only chooses the wrapper around it.
GetKind(c, dk, path, name) ==
    IF Has(c, KeyOf(path, name)) THEN "cache"
    ELSE IF ~Exists(dk, GetFilePath(path, name)) THEN "notfound"
    ELSE "disk"

Get ==
    /\ ret.kind # "none" \/ Started < MaxOps
    /\ \E f \in Files :
      LET kind == GetKind(cache, disk, f[1], f[2])
      IN  /\ ret' = [kind |-> kind, path |-> f[1], name |-> f[2],
                     stream |-> IF kind = "cache" THEN cache[KeyOf(f[1], f[2])] ELSE None]
          /\ UNCHANGED <<cache, updated_at, opened, now, dirs, disk, stream, put, del, faults>>

\* The caller of get calls read() on the cached stream it was handed.
Read ==
    /\ ret.kind = "cache"
    /\ ~stream[ret.stream].closed
    /\ Unread(stream[ret.stream]) # <<>>
    /\ stream' = [stream EXCEPT ![ret.stream].pos = Len(stream[ret.stream].data)]
    /\ put' = [put EXCEPT ![ret.stream].alone =
                            @ /\ put[ret.stream].pc \notin {"mkdir", "open", "write", "close"}]
    /\ UNCHANGED <<cache, updated_at, opened, now, dirs, disk, del, ret, faults>>

Next ==
    \/ \E p \in PutIds : PutCall(p)
    \/ \E p \in PutIds : PutMkdir(p)
    \/ \E p \in PutIds : PutOpen(p)
    \/ \E p \in PutIds : PutWrite(p)
    \/ \E p \in PutIds : PutClose(p)
    \/ \E d \in DelIds : DelCall(d)
    \/ \E d \in DelIds : DelRemove(d)
    \/ Get
    \/ Read

Spec == Init /\ [][Next]_vars

\* ================================================================ claims
PutKey(r) == KeyOf(r.path, r.name)
PutPath(r) == PutFilePath(r.path, r.name)

\* put p has inserted its stream and has not reached its retirement step
InFlight(p) == put[p].pc \in {"mkdir", "open", "write", "close"}

\* this step is a call of get (ret changes in no other step)
GetStep == ret' # ret

\* this step is the one in which put p resolves normally
Resolves(p) == put[p].pc # "done" /\ put'[p].pc = "done"

\* this step is the call of a put, or of a delete, with key k
PutCalled(k) == \E q \in PutIds : put[q].pc = "idle" /\ put'[q].pc # "idle"
                                  /\ PutKey(put'[q]) = k
DelCalled(k) == \E d \in DelIds : del[d].pc = "idle" /\ del'[d].pc # "idle"
                                  /\ KeyOf(del'[d].path, del'[d].name) = k

\* ---- C1
\* C1 (read-after-write): a get for the (path, name) of a put that has
\* inserted its stream and not yet reached retirement, whose entry is still
\* the one installed, is served from the cache with that put's stream, and a
\* read of the stream handed out returns the full data.
C1_ReadAfterWrite ==
    [][\A p \in PutIds :
         (GetStep /\ InFlight(p) /\ cache[PutKey(put[p])] = p
          /\ ret'.path = put[p].path /\ ret'.name = put[p].name)
         => /\ ret'.kind = "cache"
            /\ ret'.stream = p
            /\ Unread(stream'[p]) = DataOf(p)]_vars

Checks(p) == put[p].pc \in {"idle", "mkdir"} /\ put'[p].pc \notin {"idle", "mkdir"}

\* Without force a put that finds a file at the destination at the time of
\* the check fails with "already existing" and never opens or writes the
\* destination; with force it does not fail and goes on to open it.
C3_Check(p) ==
    /\ Checks(p) =>
         /\ (~put'[p].force /\ Exists(disk, PutPath(put'[p])))
              => (put'[p].pc = "raised" /\ disk' = disk)
         /\ (put'[p].force \/ ~Exists(disk, PutPath(put'[p]))) => put'[p].pc = "open"
    /\ put[p].pc = "raised" => (put'[p].pc = "raised" /\ put'[p].ino = None)

C4_RetirementGuard ==
    [][\A p \in PutIds :
         (Resolves(p) /\ Has(cache, PutKey(put[p])) /\ ~Has(cache', PutKey(put[p])))
         => cache[PutKey(put[p])] = p]_vars

\* ---- C5
\* C5 (not-found): a get fails with "File not existing." exactly when the key
\* is not in the cache and no file is at <base>/<path>/<name>; so it fails
\* for a key that was never put and has no file.
C5_NotFound ==
    [][GetStep =>
         LET k == KeyOf(ret'.path, ret'.name)
             fp == GetFilePath(ret'.path, ret'.name)
         IN  /\ ret'.kind = "notfound" <=> (~Has(cache, k) /\ ~Exists(disk, fp))
             /\ (~Has(opened, k) /\ ~Exists(disk, fp)) => ret'.kind = "notfound"]_vars

\* a get failed for a key no put has used, and a put has resolved meanwhile
C5_Witness ==
    /\ ret.kind = "notfound"
    /\ ~Has(opened, KeyOf(ret.path, ret.name))
    /\ ~Exists(disk, GetFilePath(ret.path, ret.name))
    /\ \E p \in PutIds : put[p].pc = "done"

\* ---- C6
\* C6 (get prefers the cache): a get for a key the cache holds returns the
\* cached stream, whatever is on disk; the file on disk is returned only when
\* the key is not cached.
C6_PrefersCache ==
    [][GetStep =>
         LET k == KeyOf(ret'.path, ret'.name)
         IN  /\ Has(cache, k) => (ret'.kind = "cache" /\ ret'.stream = cache[k])
             /\ ret'.kind = "disk" => ~Has(cache, k)
             /\ ret'.kind = "cache" => Has(cache, k)]_vars

\* a get was served from the cache while a file with other contents is on disk
C6_Witness ==
    /\ ret.kind = "cache"
    /\ cache[KeyOf(ret.path, ret.name)] = ret.stream
    /\ Exists(disk, GetFilePath(ret.path, ret.name))
    /\ disk[GetFilePath(ret.path, ret.name)].content = OldData
    /\ stream[ret.stream].data # OldData

\* ---- C7
SameFile(d, e) == del[d].path = del[e].path /\ del[d].name = del[e].name

\* delete call e directly follows delete call d, for the same (path, name),
\* and no put was called since d was called
Consecutive(d, e) ==
    /\ e = d + 1 /\ e \in DelIds
    /\ del[d].pc = "done" /\ del[e].pc = "done"
    /\ SameFile(d, e)
    /\ del[d].np = del[e].np /\ del[e].np = PutsStarted

\* C7 (delete idempotence): of two consecutive deletes of one (path, name)
\* with no put in between, the first returns true if a file existed for the
\* key, on disk or only in the cache, and the second returns false.
C7_DeleteIdempotence ==
    \A d \in DelIds :
      /\ (del[d].pc = "done" /\ del[d].had /\ ~(d - 1 \in DelIds /\ Consecutive(d - 1, d)))
           => del[d].result
      /\ \A e \in DelIds : Consecutive(d, e) => ~del[e].result

\* ---- C8
\* C8 (delete removes both representations): once a delete has returned, and
\* as long as no put for its key was called after the delete call began, the
\* key is in neither map, no file is at the path, and get fails with
\* not-found.
C8_DeleteRemovesBoth ==
    \A d \in DelIds :
      LET k == KeyOf(del[d].path, del[d].name)
      IN  (/\ del[d].pc = "done"
           /\ \A p \in PutIds : (put[p].pc # "idle" /\ PutKey(put[p]) = k) => p <= del[d].np)
          => /\ ~Has(cache, k)
             /\ ~Has(updated_at, k)
             /\ ~Exists(disk, DeleteFilePath(del[d].path, del[d].name))
             /\ GetKind(cache, disk, del[d].path, del[d].name) = "notfound"

\* ---- C9
\* the entry installed for p's key is the one put p inserted
Installed(p) == cache[PutKey(put[p])] = p /\ updated_at[PutKey(put[p])] = put[p].ts

\* C9 (no rollback on AlreadyExists): a put that fails with "already
\* existing" leaves the entry it inserted in place; a get then returns the
\* rejected stream; and the entry stays until a later put or a delete for the
\* key replaces or removes it.
C9_NoRollback ==
    [][\A p \in PutIds :
         /\ (Checks(p) /\ put'[p].pc = "raised" /\ (put[p].pc = "idle" \/ Installed(p)))
              => (cache'[PutKey(put'[p])] = p /\ updated_at'[PutKey(put'[p])] = put'[p].ts)
         /\ (put[p].pc = "raised" /\ Installed(p))
              => /\ (GetStep /\ ret'.path = put[p].path /\ ret'.name = put[p].name)
                      => (ret'.kind = "cache" /\ ret'.stream = p)
                 /\ \/ cache'[PutKey(put[p])] = p /\ updated_at'[PutKey(put[p])] = put[p].ts
                    \/ PutCalled(PutKey(put[p]))
                    \/ DelCalled(PutKey(put[p]))]_vars

\* ---- C10
\* C10 (silent write failure): an I/O error at the open or during the copy
\* does not make put raise: put goes on to the retirement check, which acts
\* as after a successful write, closes the input stream and resolves, with
\* nothing or only part of the data persisted.
C10_SilentWriteFailure ==
    [][\A p \in PutIds :
         LET k == PutKey(put[p])
         IN  /\ (~put[p].ioerr /\ put'[p].ioerr)
                  => put'[p].pc = (IF put[p].pc = "open" THEN "done" ELSE "close")
             /\ (put[p].ioerr /\ put[p].pc = "close") => put'[p].pc \in {"close", "done"}
             /\ (Resolves(p) /\ put'[p].ioerr)
                  => /\ stream'[p].closed
                     /\ (Has(updated_at, k) /\ updated_at[k] = put[p].ts)
                          => (~Has(cache', k) /\ ~Has(updated_at', k))
                     /\ ~(Has(updated_at, k) /\ updated_at[k] = put[p].ts)
                          => (cache' = cache /\ updated_at' = updated_at)]_vars

\* a put resolved after an I/O error in its copy, with part of data on disk
C10_Witness ==
    \E p \in PutIds :
      /\ put[p].pc = "done" /\ put[p].ioerr /\ stream[p].closed
      /\ Exists(disk, PutPath(put[p]))
      /\ disk[PutPath(put[p])].content = SubSeq(DataOf(p), 1, 1)
      /\ ~Has(cache, PutKey(put[p]))

\* ---- C11
\* this step ends put call p: the call resolves, or it raises
Ends(p) == put[p].pc \notin {"done", "raised"} /\ put'[p].pc \in {"done", "raised"}

\* C11 (unconditional close): whenever a put call ends, its input stream has
\* been closed, whether or not its entry was retired and whether or not the
\* write succeeded.
C11_UnconditionalClose ==
    [][\A p \in PutIds : Ends(p) => stream'[p].closed]_vars

\* ---- C12
\* every directory on the chain <base>/<segment 1>/.../<segment n> exists
ChainExists(ds, path) == \A i \in 1..Len(Segments(path)) : DirAt(path, i) \in ds

\* this step is the return of the mkdir put p was waiting for
MkdirReturns(p) ==
    put[p].pc = "mkdir" /\ (put'[p].pc # "mkdir" \/ put'[p].i # put[p].i)

\* C12 (directory auto-creation): when _prepare_path returns, every directory
\* on the chain exists and the path returned is the full chain; a put into
\* missing directories is not rejected and creates them; a step adds no
\* directory but the one a put was creating, removes none and touches no
\* file; and a mkdir that finds the directory created meanwhile by another
\* call changes nothing and does not fail the put.
C12_DirectoryAutoCreation ==
    [][/\ dirs \subseteq dirs'
       /\ \A d \in dirs' \ dirs :
            \E p \in PutIds : MkdirReturns(p) /\ d = DirAt(put[p].path, put[p].i)
       /\ \A p \in PutIds :
            /\ Checks(p)
                 => /\ ChainExists(dirs', put'[p].path)
                    /\ PutPath(put'[p])
                         = Append(DirAt(put'[p].path, Len(Segments(put'[p].path))), put'[p].name)
                    /\ ~Exists(disk, PutPath(put'[p])) => put'[p].pc = "open"
            /\ MkdirReturns(p)
                 => /\ DirAt(put[p].path, put[p].i) \in dirs'
                    /\ disk' = disk
                    /\ put'[p].pc \in {"mkdir", "open", "raised"}
                    /\ put'[p].pc = "raised"
                         => (~put[p].force /\ Exists(disk, PutPath(put[p])))
                    /\ DirAt(put[p].path, put[p].i) \in dirs => dirs' = dirs]_vars

\* put p waits for the mkdir of a directory that put q, now past
\* _prepare_path with its whole chain created, made after p's existence check
C12_Witness ==
    \E p, q \in PutIds :
      /\ put[p].pc = "mkdir" /\ DirAt(put[p].path, put[p].i) \in dirs
      /\ put[q].pc \in {"open", "write", "close", "done"} /\ put[q].fresh
      /\ ChainExists(dirs, put[q].path)
      /\ ~ChainExists(dirs, put[p].path)

\* ---- C13
\* this step is the one in which put p resolves and its retirement removes
\* the entry of its key
RetiresNow(p) ==
    Resolves(p) /\ Has(cache, PutKey(put[p])) /\ ~Has(cache', PutKey(put[p]))

\* put calls were made for key k and every one of them has resolved
AllResolved(pt, k) ==
    /\ \E p \in PutIds : pt[p].pc # "idle" /\ PutKey(pt[p]) = k
    /\ \A p \in PutIds : (pt[p].pc # "idle" /\ PutKey(pt[p]) = k) => pt[p].pc = "done"

\* C13 as stated (ordering of finishing puts): of the puts in flight for one
\* key only the one that finishes last retires the entry: no retirement
\* succeeds while another put for the key is still in flight.
C13_Original ==
    [][\A p, q \in PutIds :
         (RetiresNow(p) /\ q # p /\ PutKey(put[q]) = PutKey(put[p])) => ~InFlight(q)]_vars

\* C13 as amended: the order of finishing does not decide.  A retirement
\* removes the entry exactly when the timestamp the put recorded is the live
\* one of the key, and then the key leaves both maps; any other retirement
\* leaves both maps as they are; and when the last put for the key has
\* resolved, none having raised, the key is in neither map.
C13_Ordering ==
    [][\A p \in PutIds :
         LET k == PutKey(put[p])
             live == Has(updated_at, k) /\ updated_at[k] = put[p].ts
         IN  /\ RetiresNow(p) => (live /\ ~Has(updated_at', k))
             /\ (Resolves(p) /\ ~RetiresNow(p))
                  => (~live /\ cache' = cache /\ updated_at' = updated_at)
             /\ (Resolves(p) /\ AllResolved(put', k))
                  => (~Has(cache', k) /\ ~Has(updated_at', k))]_vars

\* with no delete called, the put that started last has finished first and
\* has retired the entry while the earlier put for the key is still in flight
C13_Witness ==
    \E p, q \in PutIds :
      /\ p < q /\ InFlight(p) /\ put[q].pc = "done"
      /\ PutKey(put[p]) = PutKey(put[q]) /\ put[p].ts # put[q].ts
      /\ ~Has(cache, PutKey(put[p])) /\ ~Has(updated_at, PutKey(put[p]))
      /\ \A d \in DelIds : del[d].pc = "idle"

\* ---- C14
\* C14 (every cache entry is retired): once every put call for a key has
\* resolved, none raising and none in flight, neither map holds the key; an
\* entry is removed at the end of a put if and only if the timestamp that put
\* recorded is the live one; and the entry of a put that was superseded is
\* retired by the put that superseded it: the put that removes an entry is
\* the one whose stream is installed.
C14_EventuallyRetired ==
    [][/\ \A k \in Keys :
            AllResolved(put', k) => (~Has(cache', k) /\ ~Has(updated_at', k))
       /\ \A p \in PutIds :
            LET k == PutKey(put[p])
            IN  /\ Resolves(p)
                     => (RetiresNow(p) <=> (Has(updated_at, k) /\ updated_at[k] = put[p].ts))
                /\ RetiresNow(p) => cache[k] = p]_vars

\* ---- C15
\* what get(f) would return: the cached stream, the file on disk, not-found
GetResult(c, dk, f) ==
    LET kind == GetKind(c, dk, f[1], f[2])
    IN  [kind |-> kind,
         stream |-> IF kind = "cache" THEN c[KeyOf(f[1], f[2])] ELSE None,
         file |-> IF kind = "disk" THEN dk[GetFilePath(f[1], f[2])] ELSE NoFile]

\* this step is a step of a put, or of a delete, on the pair f
PutActs(f) ==
    \E p \in PutIds :
      /\ put'[p].pc # put[p].pc \/ put'[p].i # put[p].i \/ put'[p].off # put[p].off
      /\ put'[p].path = f[1] /\ put'[p].name = f[2]
DelActs(f) ==
    \E d \in DelIds : del'[d] # del[d] /\ del'[d].path = f[1] /\ del'[d].name = f[2]

\* the step leaves the entries of the pair g, and what get(g) returns, alone
Untouched(g) ==
    /\ cache'[KeyOf(g[1], g[2])] = cache[KeyOf(g[1], g[2])]
    /\ updated_at'[KeyOf(g[1], g[2])] = updated_at[KeyOf(g[1], g[2])]
    /\ GetResult(cache', disk', g) = GetResult(cache, disk, g)

\* C15 (key isolation): a step of a put or delete on (path, name) leaves the
\* cache and timestamp entries of every other pair as they are, and the
\* result of get for every other pair is the same before and after.
C15_KeyIsolation ==
    [][\A f \in Files : \A g \in Files \ {f} :
         (PutActs(f) \/ DelActs(f)) => Untouched(g)]_vars

\* ---- C16
\* this step is the return of put p's aiofiles.open with the file open
Opens(p) == put[p].pc = "open" /\ put'[p].pc \in {"write", "close"}

\* C16 (no overwrite without force under concurrency): once a put without
\* force has created the destination file, no other put without force for
\* the same (path, name) opens it for writing or writes to it.
C16_NoOverwriteWithoutForce ==
    [][\A p, q \in PutIds :
         (/\ p # q /\ put[p].pc # "idle" /\ put[q].pc # "idle"
          /\ ~put[p].force /\ ~put[q].force
          /\ put[p].path = put[q].path /\ put[p].name = put[q].name
          /\ Exists(disk, PutPath(put[q])) /\ disk[PutPath(put[q])].ino = q)
         => /\ ~Opens(p)
            /\ (put[p].pc = "write" /\ put'[p].off # put[p].off) => disk' = disk]_vars

\* ---- C17
\* C17 (map consistency): at every suspension point the cache map and the
\* timestamp map hold the same keys; so whenever the retirement guard of a
\* put in flight is true, the key is in the cache map too and its removal
\* does not fail.
C17_MapConsistency ==
    /\ \A k \in Keys : Has(cache, k) <=> Has(updated_at, k)
    /\ \A p \in PutIds :
         (InFlight(p) /\ Retires(updated_at, PutKey(put[p]), put[p].ts))
         => Has(cache, PutKey(put[p]))

\* after a retirement and a delete, a put in flight has its key in both maps
\* while the key of the put that resolved is in neither
C17_Witness ==
    \E p, q \in PutIds :
      /\ put[p].pc = "done"
      /\ ~Has(cache, PutKey(put[p])) /\ ~Has(updated_at, PutKey(put[p]))
      /\ InFlight(q)
      /\ Has(cache, PutKey(put[q])) /\ Has(updated_at, PutKey(put[q]))
      /\ \E d \in DelIds : del[d].pc = "done"

\* ---- C18
\* C18 (the cache holds no closed stream): every stream in the cache map is
\* open, and a get served from the cache returns a stream that is open at the
\* time of the call.
C18_NoClosedStreamCached ==
    [][/\ \A k \in Keys : Has(cache', k) => ~stream'[cache'[k]].closed
       /\ (GetStep /\ ret'.kind = "cache") => ~stream'[ret'.stream].closed]_vars

\* put p has resolved and closed its stream while the entry of its key holds
\* the open stream of put q, which a get has returned
C18_Witness ==
    \E p, q \in PutIds :
      /\ p # q /\ put[p].pc = "done" /\ stream[p].closed
      /\ cache[PutKey(put[p])] = q /\ ~stream[q].closed
      /\ ret.kind = "cache" /\ ret.stream = q

\* ---- C19
\* C19 (a reader's cached handle stays usable): a stream that get returned
\* from the cache is not closed by the store while the reader holds it with
\* data left to read.
C19_HandleStaysUsable ==
    [][(/\ ret.kind = "cache" /\ ret' = ret
        /\ ~stream[ret.stream].closed
        /\ Unread(stream[ret.stream]) # <<>>)
       => ~stream'[ret.stream].closed]_vars

====
